---------------------------- MODULE Spec2Model ----------------------------
(***************************************************************************)
(* State-machine model of the slap game.                                   *)
(*                                                                         *)
(*   - the game screen (GameScreen, src/unnamed/part_000): grid of 25      *)
(*     tiles with mineCount mines, three picks per turn, a 500 ms          *)
(*     auto-advance timer, End Turn, restart, mine-count +/- and the slap  *)
(*     modal;                                                              *)
(*   - the single-screen variant (App, src/App.tsx): roster with slap      *)
(*     counts, one mine, the round reset on every turn advance.            *)
(*                                                                         *)
(* One step of the model is one event handler run to completion together   *)
(* with the React effects it triggers (state updates are batched, effects  *)
(* run after the render that follows the handler).                         *)
(***************************************************************************)
EXTENDS Integers, Sequences, FiniteSets

(***************************************************************************)
(* Program constants.                                                      *)
(***************************************************************************)
GRID_SIZE == 5

TOTAL_TILES == GRID_SIZE * GRID_SIZE

MAX_PICKS == 3

\* useState(3), setPicksLeft(3): the pick budget of the game screen
PICKS_PER_TURN == 3

\* Math.max(1, prev - 1)
MIN_MINES == 1

\* Math.min(24, prev + 1)
MAX_MINES == 24

(***************************************************************************)
(* Bounds of the model.                                                    *)
(***************************************************************************)
\* tiles the user taps are 0..MaxTapCell
MaxTapCell == 3

\* streams of Math.random() outcomes are numbered 0..MaxSeed
MaxSeed == 1

\* rosters handed to the game screen have 0..MaxPlayers names
MaxPlayers == 3

\* at most MaxTimers auto-advance timers are pending at once
MaxTimers == 1

\* a player of App is slapped at most MaxSlaps times
MaxSlaps == 1

\* the roster of App grows to at most MaxAppPlayers players
MaxAppPlayers == 2

TapCells == 0..MaxTapCell

Seeds == 0..MaxSeed

Cells == 0..(TOTAL_TILES - 1)

(***************************************************************************)
(* JavaScript values.                                                      *)
(***************************************************************************)
NULL == "<null>"

UNDEFINED == "<undefined>"

\* !!v for a string, null or undefined
Truthy(v) == v \notin {NULL, UNDEFINED, ""}

PlayerNames == <<"A", "B", "C", "D", "E", "F">>

Roster(n) == SubSeq(PlayerNames, 1, n)

Rosters == {Roster(n) : n \in 0..MaxPlayers}

\* players[i] of a JavaScript array (0-based; undefined out of range)
At(arr, i) == IF i + 1 \in DOMAIN arr THEN arr[i + 1] ELSE UNDEFINED

VARIABLES
    mounted,              \* which root component is running: "game" or "app"
    lastEvent,            \* the event whose handler ran last
    \* ---- GameScreen (src/unnamed/part_000)
    players,              \* roster parsed from params.players
    grid,                 \* Tile[]: [id, isMine, isRevealed], indexed 0..24
    currentPlayerIndex,
    picksLeft,
    slappedPlayer,
    isGameOver,
    mineCount,
    picksLeftRef,         \* picksLeftRef.current
    turnLockedRef,        \* turnLockedRef.current
    timers,               \* number of pending setTimeout(nextTurn, 500)
    \* ---- App (src/App.tsx)
    appPlayers,           \* players: Player[] = [id, name, slaps]
    appPlayerName,        \* playerName, the text of the input
    appCurrentPlayerIndex,
    appMineIndex,
    appGrid,              \* Tile[]: [id, revealed, isMine], indexed 0..24
    appPicksLeft,
    appRoundMessage,
    \* ---- SetupScreen (src/unnamed/part_001) and the hand-off to GameScreen
    setupPlayerName,      \* playerName, the text of the input
    setupPlayers,         \* players: string[]
    params,               \* params.players of the game route
    renderError           \* rendering GameScreen threw

gameVars == <<players, grid, currentPlayerIndex, picksLeft, slappedPlayer,
              isGameOver, mineCount, picksLeftRef, turnLockedRef, timers>>

appVars == <<appPlayers, appPlayerName, appCurrentPlayerIndex, appMineIndex,
             appGrid, appPicksLeft, appRoundMessage>>

setupVars == <<setupPlayerName, setupPlayers, params, renderError>>

vars == <<mounted, lastEvent, gameVars, appVars, setupVars>>

Event(type, arg) == [type |-> type, arg |-> arg]

(***************************************************************************)
(* GameScreen: initializeGame.                                             *)
(***************************************************************************)
\* The j-th value of Math.floor(Math.random() * TOTAL_TILES) in stream seed.
\* Every value is drawn twice in a row, so that the placement loop meets
\* cells that already hold a mine.
RandomIndex(seed, j) == (seed + (j \div 2)) % TOTAL_TILES

EmptyGrid == [i \in Cells |-> [id |-> i, isMine |-> FALSE, isRevealed |-> FALSE]]

RECURSIVE PlaceMinesNoCheck(_, _, _, _, _)
\* PlaceMines counting a draw even when the cell drawn already holds a mine
PlaceMinesNoCheck(newGrid, seed, j, minesPlaced, count) ==
    IF minesPlaced < count
    THEN LET randomIndex == RandomIndex(seed, j)
         IN  PlaceMinesNoCheck([newGrid EXCEPT ![randomIndex].isMine = TRUE],
                               seed, j + 1, minesPlaced + 1, count)
    ELSE newGrid

RECURSIVE PlaceMines(_, _, _, _, _)
\* while (minesPlaced < mineCount) { ... }
PlaceMines(newGrid, seed, j, minesPlaced, count) ==
    IF minesPlaced < count
    THEN LET randomIndex == RandomIndex(seed, j)
         IN  IF ~newGrid[randomIndex].isMine
             THEN PlaceMines([newGrid EXCEPT ![randomIndex].isMine = TRUE],
                             seed, j + 1, minesPlaced + 1, count)
             ELSE PlaceMines(newGrid, seed, j + 1, minesPlaced, count)
    ELSE newGrid

NewGrid(seed, count) == PlaceMines(EmptyGrid, seed, 0, 0, count)

\* SyncPicksLeftRef without the effect: the ref keeps what the handler left
SyncPicksLeftRefNever(ref) == picksLeftRef' = ref

\* useEffect(() => { picksLeftRef.current = picksLeft }, [picksLeft]):
\* runs after the render when picksLeft changed; ref is the value the
\* handler itself left in picksLeftRef.current.
SyncPicksLeftRef(ref) ==
    picksLeftRef' = IF picksLeft' # picksLeft THEN picksLeft' ELSE ref

\* InitializeGame without turnLockedRef.current = false
InitializeGameKeepsLock(seed, count) ==
    /\ grid' = NewGrid(seed, count)
    /\ picksLeft' = PICKS_PER_TURN
    /\ isGameOver' = FALSE
    /\ slappedPlayer' = NULL
    /\ turnLockedRef' = turnLockedRef

\* initializeGame with the given mine count (the callback is re-created
\* whenever mineCount changes).
InitializeGame(seed, count) ==
    /\ grid' = NewGrid(seed, count)
    /\ picksLeft' = PICKS_PER_TURN
    /\ isGameOver' = FALSE
    /\ slappedPlayer' = NULL
    /\ turnLockedRef' = FALSE

\* NextPlayerIndex without the wrap-around at players.length
NextPlayerIndexNoWrap(prev) == IF Len(players) # 0 THEN prev + 1 ELSE 0

\* (prev) => (players.length ? (prev + 1) % players.length : 0)
NextPlayerIndex(prev) ==
    IF Len(players) # 0 THEN (prev + 1) % Len(players) ELSE 0

\* nextTurn
NextTurn ==
    /\ picksLeft' = PICKS_PER_TURN
    /\ turnLockedRef' = FALSE
    /\ currentPlayerIndex' = NextPlayerIndex(currentPlayerIndex)

\* <Modal visible={!!slappedPlayer}>: while it shows, it covers the screen
ModalVisible == Truthy(slappedPlayer)


(***************************************************************************)
(* GameScreen: event handlers.                                             *)
(***************************************************************************)
\* TilePressRejected without the test of grid[index]?.isRevealed
TilePressRejectedNoRevealed(index) ==
    \/ isGameOver
    \/ Truthy(slappedPlayer)
    \/ picksLeftRef <= 0
    \/ turnLockedRef

\* TilePressRejected without the test of isGameOver
TilePressRejectedNoGameOver(index) ==
    \/ (index \in DOMAIN grid /\ grid[index].isRevealed)
    \/ Truthy(slappedPlayer)
    \/ picksLeftRef <= 0
    \/ turnLockedRef

\* the early return of handleTilePress
TilePressRejected(index) ==
    \/ isGameOver
    \/ (index \in DOMAIN grid /\ grid[index].isRevealed)
    \/ Truthy(slappedPlayer)
    \/ picksLeftRef <= 0
    \/ turnLockedRef

\* RevealTile building the new grid with only the tapped tile revealed
RevealTileOnly(g, index) ==
    [i \in DOMAIN g |-> [g[i] EXCEPT !.isRevealed = (i = index)]]

\* const newGrid = [...grid]; newGrid[index].isRevealed = true
RevealTile(g, index) == [g EXCEPT ![index].isRevealed = TRUE]

\* NewPicksLeft charging two picks for one reveal
NewPicksLeftTwice(ref) == ref - 2

\* const newPicksLeft = picksLeftRef.current - 1
NewPicksLeft(ref) == ref - 1

\* handleTilePress(index), the onPress of tile index
HandleTilePress(index) ==
    /\ mounted = "game"
    /\ UNCHANGED <<mounted, appVars, setupVars>>
    /\ lastEvent' = Event("tile", index)
    /\ IF TilePressRejected(index) \/ index \notin DOMAIN grid
       THEN UNCHANGED gameVars
       ELSE /\ grid' = RevealTile(grid, index)
            /\ IF grid[index].isMine
               THEN /\ turnLockedRef' = TRUE
                    /\ slappedPlayer' = At(players, currentPlayerIndex)
                    /\ isGameOver' = TRUE
                    /\ UNCHANGED <<picksLeft, picksLeftRef, timers>>
               ELSE LET newPicksLeft == NewPicksLeft(picksLeftRef)
                    IN  /\ picksLeft' = newPicksLeft
                        /\ SyncPicksLeftRef(newPicksLeft)
                        /\ IF newPicksLeft = 0
                           THEN /\ timers < MaxTimers
                                /\ turnLockedRef' = TRUE
                                /\ timers' = timers + 1
                           ELSE UNCHANGED <<turnLockedRef, timers>>
                        /\ UNCHANGED <<slappedPlayer, isGameOver>>
            /\ UNCHANGED <<players, currentPlayerIndex, mineCount>>

\* the callback of setTimeout(() => { nextTurn() }, 500)
TimerFire ==
    /\ mounted = "game"
    /\ UNCHANGED <<mounted, appVars, setupVars>>
    /\ timers > 0
    /\ lastEvent' = Event("timer", -1)
    /\ timers' = timers - 1
    /\ NextTurn
    /\ SyncPicksLeftRef(picksLeftRef)
    /\ UNCHANGED <<players, grid, slappedPlayer, isGameOver, mineCount>>

\* disabled={picksLeft === 3 || isGameOver} of the End Turn button
EndTurnDisabled == picksLeft = PICKS_PER_TURN \/ isGameOver

\* handleEndTurn
HandleEndTurn ==
    IF picksLeft = PICKS_PER_TURN
    THEN UNCHANGED gameVars
    ELSE /\ NextTurn
         /\ SyncPicksLeftRef(picksLeftRef)
         /\ UNCHANGED <<players, grid, slappedPlayer, isGameOver, mineCount,
                        timers>>

\* a press on the End Turn button
PressEndTurn ==
    /\ mounted = "game"
    /\ UNCHANGED <<mounted, appVars, setupVars>>
    /\ lastEvent' = Event("endTurn", -1)
    /\ IF EndTurnDisabled THEN UNCHANGED gameVars ELSE HandleEndTurn

\* a press on the restart button: onPress={initializeGame}
PressRestart(seed) ==
    /\ mounted = "game"
    /\ UNCHANGED <<mounted, appVars, setupVars>>
    /\ ~ModalVisible
    /\ lastEvent' = Event("restart", -1)
    /\ InitializeGame(seed, mineCount)
    /\ SyncPicksLeftRef(picksLeftRef)
    /\ UNCHANGED <<players, currentPlayerIndex, mineCount, timers>>

\* setMineCount(next) and, when the count changed, the effect
\* useEffect(() => { initializeGame() }, [initializeGame])
SetMineCount(next, seed) ==
    /\ mineCount' = next
    /\ IF next # mineCount
       THEN /\ InitializeGame(seed, next)
            /\ SyncPicksLeftRef(picksLeftRef)
       ELSE UNCHANGED <<grid, picksLeft, isGameOver, slappedPlayer,
                        turnLockedRef, picksLeftRef>>
    /\ UNCHANGED <<players, currentPlayerIndex, timers>>

\* MinusMineCount without the lower clamp
MinusMineCountNoClamp(prev) == prev - 1

\* Math.max(1, prev - 1)
MinusMineCount(prev) == IF prev - 1 > MIN_MINES THEN prev - 1 ELSE MIN_MINES

\* Math.min(24, prev + 1)
PlusMineCount(prev) == IF prev + 1 < MAX_MINES THEN prev + 1 ELSE MAX_MINES

\* a press on the minus button of the mine controls
PressMinus(seed) ==
    /\ mounted = "game"
    /\ UNCHANGED <<mounted, appVars, setupVars>>
    /\ ~ModalVisible
    /\ lastEvent' = Event("minus", -1)
    /\ SetMineCount(MinusMineCount(mineCount), seed)

\* a press on the plus button of the mine controls
PressPlus(seed) ==
    /\ mounted = "game"
    /\ UNCHANGED <<mounted, appVars, setupVars>>
    /\ ~ModalVisible
    /\ lastEvent' = Event("plus", -1)
    /\ SetMineCount(PlusMineCount(mineCount), seed)

\* handleSlapDismiss, the onPress of the modal's Next Round button
HandleSlapDismiss(seed) ==
    /\ mounted = "game"
    /\ UNCHANGED <<mounted, appVars, setupVars>>
    /\ ModalVisible
    /\ lastEvent' = Event("dismiss", -1)
    /\ InitializeGame(seed, mineCount)
    /\ currentPlayerIndex' = NextPlayerIndex(currentPlayerIndex)
    /\ SyncPicksLeftRef(picksLeftRef)
    /\ UNCHANGED <<players, mineCount, timers>>

\* GameScreen after its first render and mount effects
GameInit(roster, seed) ==
    /\ players = roster
    /\ grid = NewGrid(seed, 1)
    /\ currentPlayerIndex = 0
    /\ picksLeft = PICKS_PER_TURN
    /\ slappedPlayer = NULL
    /\ isGameOver = FALSE
    /\ mineCount = 1
    /\ picksLeftRef = PICKS_PER_TURN
    /\ turnLockedRef = FALSE
    /\ timers = 0

(***************************************************************************)
(* App (src/App.tsx).  Text is a sequence of characters.                   *)
(***************************************************************************)
\* the texts typed into the name input
NameInputs == {<<>>, <<" ">>, <<" ", "A", " ">>}

RECURSIVE TrimStart(_)
TrimStart(str) ==
    IF str # <<>> /\ Head(str) = " " THEN TrimStart(Tail(str)) ELSE str

RECURSIVE TrimEnd(_)
TrimEnd(str) ==
    IF str # <<>> /\ str[Len(str)] = " "
    THEN TrimEnd(SubSeq(str, 1, Len(str) - 1))
    ELSE str

\* String.prototype.trim
Trim(str) == TrimEnd(TrimStart(str))

\* the values Math.floor(Math.random() * GRID_SIZE * GRID_SIZE) takes
RandomDraws == {RandomIndex(seed, 0) : seed \in Seeds}

\* the values Date.now() takes
Clock == {0}

createGrid(mineIdx) ==
    [i \in Cells |-> [id |-> i, revealed |-> FALSE, isMine |-> (i = mineIdx)]]

\* useMemo: players.length ? players[currentPlayerIndex] : undefined
currentPlayer ==
    IF Len(appPlayers) # 0
    THEN At(appPlayers, appCurrentPlayerIndex)
    ELSE UNDEFINED

\* !currentPlayer
NoCurrentPlayer ==
    \/ Len(appPlayers) = 0
    \/ appCurrentPlayerIndex + 1 \notin DOMAIN appPlayers

DefaultMessage == <<"Pick up to 3 tiles.">>

\* resetRound(nextPlayerIndex, message) with nextMine the random draw
resetRound(nextPlayerIndex, message, nextMine) ==
    /\ appMineIndex' = nextMine
    /\ appGrid' = createGrid(nextMine)
    /\ appPicksLeft' = MAX_PICKS
    /\ appRoundMessage' = message
    /\ appCurrentPlayerIndex' = nextPlayerIndex

\* SlapPlayer without the test idx === currentPlayerIndex
SlapEveryPlayer(prev, index) ==
    [idx \in DOMAIN prev |->
        [prev[idx] EXCEPT !.slaps = prev[idx].slaps + 1]]

\* prev.map((p, idx) => idx === currentPlayerIndex
\*                      ? { ...p, slaps: p.slaps + 1 } : p)
SlapPlayer(prev, index) ==
    [idx \in DOMAIN prev |->
        IF idx - 1 = index
        THEN [prev[idx] EXCEPT !.slaps = prev[idx].slaps + 1]
        ELSE prev[idx]]

\* prev.map((tile) => tile.id === tileId ? { ...tile, revealed: true } : tile)
RevealPicked(prev, tileId) ==
    [i \in DOMAIN prev |->
        IF prev[i].id = tileId
        THEN [prev[i] EXCEPT !.revealed = TRUE]
        ELSE prev[i]]

\* grid.find((tile) => tile.id === tileId) finds a tile
HasTile(tileId) == \E i \in DOMAIN appGrid : appGrid[i].id = tileId

\* the tile it finds
FindTile(tileId) ==
    appGrid[CHOOSE i \in DOMAIN appGrid : appGrid[i].id = tileId]

\* the early returns of handlePick
PickRejected(tileId) ==
    \/ NoCurrentPlayer
    \/ appPicksLeft = 0
    \/ ~HasTile(tileId)
    \/ FindTile(tileId).revealed

\* advanceTurn(message) run after the state updates of handlePick queued
\* before it: revealed is the grid and picks the picksLeft they leave when
\* advanceTurn returns early
advanceTurn(message, nextMine, revealed, picks) ==
    IF Len(appPlayers) = 0
    THEN /\ appGrid' = revealed
         /\ appPicksLeft' = picks
         /\ UNCHANGED <<appMineIndex, appRoundMessage, appCurrentPlayerIndex>>
    ELSE resetRound((appCurrentPlayerIndex + 1) % Len(appPlayers), message,
                    nextMine)

\* handlePick(tileId), the onPress of a tile
handlePick(tileId, nextMine) ==
    /\ mounted = "app"
    /\ UNCHANGED <<mounted, gameVars, setupVars>>
    /\ lastEvent' = Event("pick", tileId)
    /\ IF PickRejected(tileId)
       THEN UNCHANGED appVars
       ELSE LET pickedTile == FindTile(tileId)
                nextPicksLeft == appPicksLeft - 1
            IN  /\ UNCHANGED appPlayerName
                /\ IF pickedTile.isMine
                   THEN /\ currentPlayer.slaps < MaxSlaps
                        /\ appPlayers' = SlapPlayer(appPlayers,
                                                    appCurrentPlayerIndex)
                        /\ advanceTurn(currentPlayer.name
                                           \o <<" hit the mine! Slap!">>,
                                       nextMine,
                                       RevealPicked(appGrid, tileId),
                                       appPicksLeft)
                   ELSE /\ UNCHANGED appPlayers
                        /\ IF nextPicksLeft = 0
                           THEN advanceTurn(currentPlayer.name
                                              \o <<" is safe. Next player.">>,
                                            nextMine,
                                            RevealPicked(appGrid, tileId),
                                            nextPicksLeft)
                           ELSE /\ appGrid' = RevealPicked(appGrid, tileId)
                                /\ appPicksLeft' = nextPicksLeft
                                /\ UNCHANGED <<appMineIndex, appRoundMessage,
                                               appCurrentPlayerIndex>>

\* onChangeText={setPlayerName}
ChangeText(text) ==
    /\ mounted = "app"
    /\ UNCHANGED <<mounted, gameVars, setupVars>>
    /\ lastEvent' = Event("text", -1)
    /\ appPlayerName' = text
    /\ UNCHANGED <<appPlayers, appCurrentPlayerIndex, appMineIndex, appGrid,
                   appPicksLeft, appRoundMessage>>

\* addPlayer, the onPress of the Add button; now is Date.now()
addPlayer(now) ==
    /\ mounted = "app"
    /\ UNCHANGED <<mounted, gameVars, setupVars>>
    /\ lastEvent' = Event("add", -1)
    /\ LET trimmed == Trim(appPlayerName)
       IN  IF trimmed = <<>>
           THEN UNCHANGED appVars
           ELSE /\ Len(appPlayers) < MaxAppPlayers
                /\ appPlayers' = Append(appPlayers,
                       [id |-> now, name |-> trimmed, slaps |-> 0])
                /\ appPlayerName' = <<>>
                /\ appCurrentPlayerIndex' =
                       IF Len(appPlayers) = 0 THEN 0 ELSE appCurrentPlayerIndex
                /\ UNCHANGED <<appMineIndex, appGrid, appPicksLeft,
                               appRoundMessage>>

\* App after its first render; mineIdx is the lazy initial state of mineIndex
AppInit(mineIdx) ==
    /\ appPlayers = <<>>
    /\ appPlayerName = <<>>
    /\ appCurrentPlayerIndex = 0
    /\ appMineIndex = mineIdx
    /\ appGrid = createGrid(mineIdx)
    /\ appPicksLeft = MAX_PICKS
    /\ appRoundMessage = DefaultMessage

AppNext ==
    \/ \E tileId \in TapCells, nextMine \in RandomDraws :
           handlePick(tileId, nextMine)
    \/ \E text \in NameInputs : ChangeText(text)
    \/ \E now \in Clock : addPlayer(now)

(***************************************************************************)
(* JSON text is a sequence of tokens [t, v]: t is "[", "]", ",", "str",    *)
(* "num", "null" or "bad" (a character no JSON text has there); v is the   *)
(* content of a string or number token.                                    *)
(***************************************************************************)
Tok(t, v) == [t |-> t, v |-> v]

ScalarTokens == {"str", "num", "null"}

RECURSIVE StringifyItems(_)
StringifyItems(names) ==
    IF names = <<>>
    THEN <<>>
    ELSE <<Tok("str", Head(names))>>
         \o (IF Tail(names) = <<>> THEN <<>> ELSE <<Tok(",", <<>>)>>)
         \o StringifyItems(Tail(names))

\* JSON.stringify(players) of an array of strings
Stringify(names) ==
    <<Tok("[", <<>>)>> \o StringifyItems(names) \o <<Tok("]", <<>>)>>

SyntaxError == [ok |-> FALSE, type |-> "error", items |-> <<>>]

JsonValue(type, items) == [ok |-> TRUE, type |-> type, items |-> items]

\* the type of the value a scalar token denotes
TypeOf(tok) ==
    IF tok.t = "str" THEN "string" ELSE IF tok.t = "num" THEN "number" ELSE "null"

RECURSIVE ParseElements(_, _, _)
\* the elements of an array from token i on, acc the elements read so far
ParseElements(text, i, acc) ==
    IF i > Len(text) \/ text[i].t \notin ScalarTokens
    THEN SyntaxError
    ELSE LET acc2 == Append(acc, [type |-> TypeOf(text[i]), v |-> text[i].v])
         IN  IF i + 1 > Len(text)
             THEN SyntaxError
             ELSE IF text[i + 1].t = "]"
             THEN (IF i + 1 = Len(text) THEN JsonValue("array", acc2)
                                        ELSE SyntaxError)
             ELSE IF text[i + 1].t = ","
             THEN ParseElements(text, i + 2, acc2)
             ELSE SyntaxError

\* JSON.parse(text) for scalars and arrays of scalars; ok = FALSE when it
\* throws a SyntaxError
ParseJSON(text) ==
    IF text = <<>>
    THEN SyntaxError
    ELSE IF text[1].t \in ScalarTokens
    THEN (IF Len(text) = 1
          THEN JsonValue(TypeOf(text[1]), <<[type |-> TypeOf(text[1]),
                                            v |-> text[1].v]>>)
          ELSE SyntaxError)
    ELSE IF text[1].t = "["
    THEN (IF Len(text) >= 2 /\ text[2].t = "]"
          THEN (IF Len(text) = 2 THEN JsonValue("array", <<>>) ELSE SyntaxError)
          ELSE ParseElements(text, 2, <<>>))
    ELSE SyntaxError

\* a route parameter: absent, or a text
Absent == [present |-> FALSE, text |-> <<>>]

Param(text) == [present |-> TRUE, text |-> text]

\* const players = (() => { try { return params.players
\*     ? JSON.parse(params.players) : [] } catch { return [] } })()
HandOff(param) ==
    IF ~param.present \/ param.text = <<>>
    THEN JsonValue("array", <<>>)
    ELSE LET parsed == ParseJSON(param.text)
         IN  IF parsed.ok THEN parsed ELSE JsonValue("array", <<>>)

\* players.length (in the dependencies of nextTurn) throws a TypeError
RenderThrows(value) == value.type = "null"

\* what players[i] and players.length see of the value: the elements of an
\* array, the characters of a string, nothing of a number
ArrayLike(value) ==
    IF value.type = "array"
    THEN [k \in DOMAIN value.items |-> value.items[k].v]
    ELSE IF value.type = "string"
    THEN value.items[1].v
    ELSE <<>>

\* GameScreen mounted with the given roster: its first render and effects
MountGame(roster, seed) ==
    /\ players' = roster
    /\ grid' = NewGrid(seed, 1)
    /\ currentPlayerIndex' = 0
    /\ picksLeft' = PICKS_PER_TURN
    /\ slappedPlayer' = NULL
    /\ isGameOver' = FALSE
    /\ mineCount' = 1
    /\ picksLeftRef' = PICKS_PER_TURN
    /\ turnLockedRef' = FALSE
    /\ timers' = 0

\* the game route is opened with the given players parameter
PushGame(param, seed) ==
    /\ mounted' = "game"
    /\ params' = param
    /\ LET value == HandOff(param)
       IN  IF RenderThrows(value)
           THEN /\ renderError' = TRUE
                /\ UNCHANGED gameVars
           ELSE /\ renderError' = FALSE
                /\ MountGame(ArrayLike(value), seed)

(***************************************************************************)
(* SetupScreen (src/unnamed/part_001).                                     *)
(***************************************************************************)
\* the texts typed into the name input of the setup screen
SetupNameInputs ==
    {<<>>, <<" ">>, <<"A">>, <<" ", "A", " ">>, <<"B">>, <<"C", " ">>}

\* the players parameters the game route is opened with from outside the
\* setup screen: absent, empty, not JSON, and JSON of every modelled type
HandOffParams ==
    {Absent,
     Param(<<>>),
     Param(<<Tok("bad", <<>>)>>),
     Param(<<Tok("[", <<>>), Tok("str", <<"A">>)>>),
     Param(<<Tok("null", <<>>)>>),
     Param(<<Tok("num", <<"5">>)>>),
     Param(<<Tok("str", <<"A", "B">>)>>),
     Param(<<Tok("[", <<>>), Tok("num", <<"1">>), Tok(",", <<>>),
             Tok("num", <<"2">>), Tok("]", <<>>)>>),
     Param(<<Tok("[", <<>>), Tok("]", <<>>)>>),
     Param(Stringify(<<<<"A">>, <<"B">>>>))}

\* arr.includes(x)
Includes(arr, x) == \E k \in DOMAIN arr : arr[k] = x

\* players.includes(playerName) without the trim
IsDuplicateUntrimmed(text) == Includes(setupPlayers, text)

\* players.includes(playerName.trim())
IsDuplicate(text) == Includes(setupPlayers, Trim(text))

\* onChangeText={setPlayerName}
SetupChangeText(text) ==
    /\ mounted = "setup"
    /\ UNCHANGED <<mounted, gameVars, appVars>>
    /\ lastEvent' = Event("setupText", -1)
    /\ setupPlayerName' = text
    /\ UNCHANGED <<setupPlayers, params, renderError>>

\* addPlayer of the setup screen
SetupAddPlayer ==
    /\ mounted = "setup"
    /\ UNCHANGED <<mounted, gameVars, appVars>>
    /\ lastEvent' = Event("setupAdd", -1)
    /\ IF Trim(setupPlayerName) = <<>> \/ IsDuplicate(setupPlayerName)
       THEN UNCHANGED setupVars
       ELSE /\ setupPlayers' = Append(setupPlayers, Trim(setupPlayerName))
            /\ setupPlayerName' = <<>>
            /\ UNCHANGED <<params, renderError>>

\* newPlayers.splice(index, 1)
Splice(arr, index) ==
    SubSeq(arr, 1, index) \o SubSeq(arr, index + 2, Len(arr))

\* removePlayer(index), the onPress of the X of list item index
RemovePlayer(index) ==
    /\ mounted = "setup"
    /\ index \in 0..(Len(setupPlayers) - 1)
    /\ UNCHANGED <<mounted, gameVars, appVars>>
    /\ lastEvent' = Event("remove", index)
    /\ setupPlayers' = Splice(setupPlayers, index)
    /\ UNCHANGED <<setupPlayerName, params, renderError>>

\* players.length < 1 instead of players.length < 2
StartGameRejectedOne == Len(setupPlayers) < 1

\* if (players.length < 2) { Alert.alert(...); return }, and the disabled
\* prop of the Start Game button
StartGameRejected == Len(setupPlayers) < 2

\* a press on Start Game: startGame
StartGame(seed) ==
    /\ mounted = "setup"
    /\ lastEvent' = Event("startGame", -1)
    /\ UNCHANGED <<appVars, setupPlayerName, setupPlayers>>
    /\ IF StartGameRejected
       THEN UNCHANGED <<mounted, gameVars, params, renderError>>
       ELSE PushGame(Param(Stringify(setupPlayers)), seed)

\* the game route opened from outside the setup screen (a link)
OpenGame(param, seed) ==
    /\ mounted = "setup"
    /\ lastEvent' = Event("openGame", -1)
    /\ UNCHANGED <<appVars, setupPlayerName, setupPlayers>>
    /\ PushGame(param, seed)

\* router.back() of the game screen's back button (or the system's)
Back ==
    /\ mounted = "game"
    /\ lastEvent' = Event("back", -1)
    /\ mounted' = "setup"
    /\ renderError' = FALSE
    /\ UNCHANGED <<gameVars, appVars, setupPlayerName, setupPlayers, params>>

\* SetupScreen after its first render, no game route opened yet
SetupInit ==
    /\ setupPlayerName = <<>>
    /\ setupPlayers = <<>>
    /\ renderError = FALSE

SetupNext ==
    \/ \E text \in SetupNameInputs : SetupChangeText(text)
    \/ SetupAddPlayer
    \/ \E index \in 0..(Cardinality(SetupNameInputs) - 1) : RemovePlayer(index)
    \/ \E seed \in Seeds : StartGame(seed)
    \/ \E param \in HandOffParams, seed \in Seeds : OpenGame(param, seed)
    \/ Back

GameNext ==
    \/ \E index \in TapCells : HandleTilePress(index)
    \/ TimerFire
    \/ PressEndTurn
    \/ \E seed \in Seeds : PressRestart(seed)
    \/ \E seed \in Seeds : PressMinus(seed)
    \/ \E seed \in Seeds : PressPlus(seed)
    \/ \E seed \in Seeds : HandleSlapDismiss(seed)

\* Either root component is mounted; the state of the other one stays as
\* constructed.
Init ==
    /\ lastEvent = Event("mount", -1)
    /\ SetupInit
    /\ \/ /\ mounted = "game"
          /\ \E roster \in Rosters, seed \in Seeds :
                 /\ GameInit(roster, seed)
                 /\ params = Param(Stringify(roster))
          /\ AppInit(0)
       \/ /\ mounted = "app"
          /\ \E mineIdx \in RandomDraws : AppInit(mineIdx)
          /\ GameInit(<<>>, 0)
          /\ params = Absent

Next == GameNext \/ AppNext

Spec == Init /\ [][Next]_vars

\* a timeout that is pending eventually runs its callback
FairSpec == Spec /\ WF_vars(TimerFire)

\* the app started on the setup screen
InitSetup ==
    /\ mounted = "setup"
    /\ lastEvent = Event("mount", -1)
    /\ SetupInit
    /\ params = Absent
    /\ GameInit(<<>>, 0)
    /\ AppInit(0)

\* the setup screen and the hand-off of its roster to the game screen
SetupSpec == InitSetup /\ [][SetupNext]_vars


(***************************************************************************)
(* Properties.                                                             *)
(***************************************************************************)
Mines(g) == {i \in DOMAIN g : g[i].isMine}

Slapped == Truthy(slappedPlayer)

\* the game screen accepts a tap on tile index: the tile is hidden, the
\* game is not over, nobody is slapped, picks are left, the turn is open
TapAccepted(index) ==
    /\ mounted = "game"
    /\ ~isGameOver
    /\ ~Slapped
    /\ picksLeft > 0
    /\ ~turnLockedRef
    /\ ~grid[index].isRevealed

\* App accepts a tap on tile tileId
PickAccepted(tileId) ==
    /\ mounted = "app"
    /\ appPlayers # <<>>
    /\ appPicksLeft > 0
    /\ ~appGrid[tileId].revealed

\* the position in the roster of the player named name
IndexOf(name) == CHOOSE i \in 0..(Len(players) - 1) : players[i + 1] = name

\* C1: in the game screen with n >= 2 players, every change of
\* currentPlayerIndex is one round-ending event of a turn that is still
\* running (dismissal of a slap, the timer after the picks were exhausted,
\* a manual end turn after at least one pick): it moves the index from i to
\* (i + 1) mod n and leaves picksLeft = 3; no other step takes the turn away.
C1_TurnAdvancesOnce ==
    [][(mounted = "game" /\ Len(players) >= 2
            /\ currentPlayerIndex' # currentPlayerIndex)
       => /\ currentPlayerIndex' = (currentPlayerIndex + 1) % Len(players)
          /\ picksLeft' = PICKS_PER_TURN
          /\ \/ Slapped /\ lastEvent'.type = "dismiss"
             \/ ~Slapped /\ picksLeft = 0 /\ lastEvent'.type = "timer"
             \/ ~Slapped /\ picksLeft < PICKS_PER_TURN
                         /\ lastEvent'.type = "endTurn"]_vars

\* C2: the grid of the game screen always has the 25 cells 0..24, with ids
\* 0..24, and exactly mineCount of them are mines; the grid of App has the
\* same cells and exactly one mine, at mineIndex.
C2_MineCount ==
    /\ DOMAIN grid = Cells
    /\ \A i \in Cells : grid[i].id = i
    /\ Cardinality(Mines(grid)) = mineCount
    /\ DOMAIN appGrid = Cells
    /\ \A i \in Cells : appGrid[i].id = i
    /\ Mines(appGrid) = {appMineIndex}

\* a grid re-initialized by a change of mineCount, with three mines
C2_Witness ==
    /\ lastEvent.type = "plus"
    /\ mineCount = 3
    /\ Cardinality(Mines(grid)) = 3
    /\ \A i \in Cells : ~grid[i].isRevealed

\* C3: an accepted tap on a hidden non-mine cell lowers picksLeft by exactly
\* 1, reveals that cell and leaves the flags of every other cell unchanged.
C3_SafeReveal ==
    [][\A index \in TapCells :
          (TapAccepted(index) /\ ~grid[index].isMine
               /\ lastEvent' = Event("tile", index))
          => /\ picksLeft' = picksLeft - 1
             /\ grid'[index].isRevealed
             /\ grid'[index].isMine = grid[index].isMine
             /\ \A other \in Cells \ {index} :
                    /\ grid'[other].isRevealed = grid[other].isRevealed
                    /\ grid'[other].isMine = grid[other].isMine]_vars

\* the first safe pick of a turn has been accepted
C3_Witness ==
    \E index \in TapCells :
        /\ lastEvent = Event("tile", index)
        /\ grid[index].isRevealed
        /\ ~grid[index].isMine
        /\ picksLeft = PICKS_PER_TURN - 1

\* C4: in App, an accepted tap on the mine raises the slap count of the
\* player at currentPlayerIndex by exactly 1; no other player's count and no
\* other event changes a slap count, and no player leaves the roster.
C4_SlapCount ==
    [][LET minePicked ==
               \E tileId \in TapCells :
                   /\ PickAccepted(tileId)
                   /\ appGrid[tileId].isMine
                   /\ lastEvent' = Event("pick", tileId)
       IN  /\ Len(appPlayers') >= Len(appPlayers)
           /\ \A i \in DOMAIN appPlayers :
                  appPlayers'[i].slaps =
                      IF minePicked /\ i - 1 = appCurrentPlayerIndex
                      THEN appPlayers[i].slaps + 1
                      ELSE appPlayers[i].slaps]_vars

\* one of two players was slapped by the last tap, the other was not
C4_Witness ==
    /\ lastEvent.type = "pick"
    /\ Len(appPlayers) = 2
    /\ \E i, j \in DOMAIN appPlayers :
           /\ appPlayers[i].slaps = 1
           /\ appPlayers[j].slaps = 0
           /\ appCurrentPlayerIndex = i % 2

\* C5: a tap on a revealed cell, or on any cell while picksLeft is 0, changes
\* nothing of the game state, in the game screen and in App.
C5_NoOpTaps ==
    [][\A index \in TapCells :
          /\ (mounted = "game" /\ lastEvent' = Event("tile", index)
                  /\ (grid[index].isRevealed \/ picksLeft = 0))
             => UNCHANGED gameVars
          /\ (mounted = "app" /\ lastEvent' = Event("pick", index)
                  /\ (appGrid[index].revealed \/ appPicksLeft = 0))
             => UNCHANGED appVars]_vars

\* a revealed cell was tapped at the start of a turn (no pick used, nobody
\* slapped), and still no pick is used
C5_Witness ==
    \E index \in TapCells :
        /\ lastEvent = Event("tile", index)
        /\ grid[index].isRevealed
        /\ picksLeft = PICKS_PER_TURN
        /\ ~isGameOver

\* C6: in the game screen an accepted tap on a mine sets slappedPlayer to
\* the current player's name and isGameOver, and keeps currentPlayerIndex;
\* the dismissal hides every cell, places mineCount mines, sets picksLeft
\* to 3, clears slappedPlayer and isGameOver, and gives the turn to the
\* player after the slapped one.
C6_SlapThenNewRound ==
    [][mounted = "game" =>
          /\ \A index \in TapCells :
                 (TapAccepted(index) /\ grid[index].isMine
                      /\ lastEvent' = Event("tile", index))
                 => /\ slappedPlayer' = At(players, currentPlayerIndex)
                    /\ isGameOver'
                    /\ currentPlayerIndex' = currentPlayerIndex
          /\ lastEvent'.type = "dismiss"
             => /\ \A i \in Cells : ~grid'[i].isRevealed
                /\ Cardinality(Mines(grid')) = mineCount
                /\ picksLeft' = PICKS_PER_TURN
                /\ slappedPlayer' = NULL
                /\ ~isGameOver'
                /\ currentPlayerIndex' =
                       (IndexOf(slappedPlayer) + 1) % Len(players)]_vars

\* C7: a turn advance hands the next player a grid with every cell hidden,
\* in the game screen and in App.
C7_AdvanceResetsGrid ==
    [][/\ (mounted = "game" /\ currentPlayerIndex' # currentPlayerIndex)
          => \A i \in Cells : ~grid'[i].isRevealed
       /\ (mounted = "app" /\ appCurrentPlayerIndex' # appCurrentPlayerIndex)
          => \A i \in Cells : ~appGrid'[i].revealed]_vars

\* C8: whenever the current player i of the game screen (n >= 2 players)
\* has revealed three safe cells in a row (picksLeft = 0), eventually the
\* turn is with player (i + 1) mod n, picksLeft is 3 and nobody is slapped,
\* given that a pending timer eventually fires; in App the third safe reveal
\* itself passes the turn, resets picksLeft to 3 and changes no slap count.
C8_SafeTurnPasses ==
    /\ \A i \in 0..(MaxPlayers - 1) :
           (mounted = "game" /\ Len(players) >= 2 /\ currentPlayerIndex = i
                /\ picksLeft = 0 /\ ~Slapped /\ ~isGameOver)
           ~> (Len(players) >= 2
                   /\ currentPlayerIndex = (i + 1) % Len(players)
                   /\ picksLeft = PICKS_PER_TURN /\ ~Slapped /\ ~isGameOver)
    /\ [][\A tileId \in TapCells :
             (PickAccepted(tileId) /\ ~appGrid[tileId].isMine
                  /\ appPicksLeft = 1 /\ lastEvent' = Event("pick", tileId))
             => /\ appCurrentPlayerIndex' =
                       (appCurrentPlayerIndex + 1) % Len(appPlayers)
                /\ appPicksLeft' = MAX_PICKS
                /\ appPlayers' = appPlayers]_vars

\* C9: a press on End Turn advances to the next player with picksLeft = 3
\* and nobody slapped when a pick has been used (picksLeft < 3), nobody is
\* slapped, the game is not over and the picks are not exhausted; in every
\* other state it changes nothing.
C9_EndTurnGuard ==
    [][(mounted = "game" /\ Len(players) >= 2
            /\ lastEvent'.type = "endTurn")
       => IF /\ picksLeft < PICKS_PER_TURN
             /\ picksLeft > 0
             /\ ~isGameOver
             /\ ~Slapped
          THEN /\ currentPlayerIndex' = NextPlayerIndex(currentPlayerIndex)
               /\ picksLeft' = PICKS_PER_TURN
               /\ slappedPlayer' = NULL
               /\ ~isGameOver'
          ELSE UNCHANGED gameVars]_vars

\* C10: with an empty roster a tap on a cell reveals nothing, keeps
\* picksLeft and enters no slapped or game-over state, in the game screen
\* and in App.
C10_EmptyRosterTap ==
    [][/\ (mounted = "game" /\ players = <<>> /\ lastEvent'.type = "tile")
          => UNCHANGED <<grid, picksLeft, slappedPlayer, isGameOver>>
       /\ (mounted = "app" /\ appPlayers = <<>> /\ lastEvent'.type = "pick")
          => UNCHANGED <<appGrid, appPicksLeft, appPlayers>>]_vars

\* C11: with a non-empty roster currentPlayerIndex is a valid index of it,
\* in the game screen and in App.
C11_IndexInRange ==
    /\ Len(players) > 0 => currentPlayerIndex \in 0..(Len(players) - 1)
    /\ Len(appPlayers) > 0
       => appCurrentPlayerIndex \in 0..(Len(appPlayers) - 1)

\* a dismissal has wrapped the index of a two-player game back to 0
C11_Witness ==
    /\ lastEvent.type = "dismiss"
    /\ Len(players) = 2
    /\ currentPlayerIndex = 0

\* C12: picksLeft is always in 0..3; a step leaves it unchanged, lowers it by
\* 1 (only a tile tap does) or sets it to 3 (from the game screen's turn
\* advance, restart, dismissal or mine-count change; in App from the tap
\* that ends the turn).
C12_PicksLeftSteps ==
    /\ [](picksLeft \in 0..PICKS_PER_TURN /\ appPicksLeft \in 0..MAX_PICKS)
    /\ [][/\ \/ picksLeft' = picksLeft
             \/ picksLeft' = picksLeft - 1 /\ lastEvent'.type = "tile"
             \/ /\ picksLeft' = PICKS_PER_TURN
                /\ lastEvent'.type \in {"timer", "endTurn", "restart",
                                        "dismiss", "plus", "minus"}
          /\ \/ appPicksLeft' = appPicksLeft
             \/ appPicksLeft' = appPicksLeft - 1 /\ lastEvent'.type = "pick"
             \/ appPicksLeft' = MAX_PICKS /\ lastEvent'.type = "pick"]_vars

\* the third safe pick has brought picksLeft to 0
C12_Witness ==
    /\ lastEvent.type = "tile"
    /\ picksLeft = 0
    /\ Cardinality({i \in Cells : grid[i].isRevealed}) >= PICKS_PER_TURN

\* C13: a step that hides a revealed cell or changes a cell's isMine flag is
\* a grid re-initialization: in the game screen initializeGame (restart,
\* dismissal, mine-count change), in App resetRound (inside a tap), and it
\* leaves every cell hidden.
C13_RevealedStays ==
    [][/\ (\E i \in Cells : \/ grid[i].isRevealed /\ ~grid'[i].isRevealed
                            \/ grid'[i].isMine # grid[i].isMine)
          => /\ lastEvent'.type \in {"restart", "dismiss", "plus", "minus"}
             /\ \A i \in Cells : ~grid'[i].isRevealed
       /\ (\E i \in Cells : \/ appGrid[i].revealed /\ ~appGrid'[i].revealed
                            \/ appGrid'[i].isMine # appGrid[i].isMine)
          => /\ lastEvent'.type = "pick"
             /\ appGrid' = createGrid(appMineIndex')]_vars

\* a second tile was revealed and the first one is still revealed
C13_Witness ==
    \E i, j \in TapCells :
        /\ i # j
        /\ lastEvent = Event("tile", j)
        /\ grid[i].isRevealed
        /\ grid[j].isRevealed
        /\ picksLeft = PICKS_PER_TURN - 2

\* the names of the roster are pairwise distinct
Distinct(arr) == \A j, k \in DOMAIN arr : arr[j] = arr[k] => j = k

\* C14: the roster of the setup screen holds pairwise distinct, non-empty,
\* trimmed names; an add whose trimmed name is empty or already in the roster
\* leaves the roster unchanged; the roster a game is started with has no
\* duplicates.
C14_RosterDistinct ==
    /\ [](/\ Distinct(setupPlayers)
          /\ \A k \in DOMAIN setupPlayers :
                 setupPlayers[k] # <<>> /\ Trim(setupPlayers[k]) = setupPlayers[k]
          /\ (mounted = "game" /\ lastEvent.type = "startGame")
                 => Distinct(players))
    /\ [][(/\ lastEvent'.type = "setupAdd"
           /\ \/ Trim(setupPlayerName) = <<>>
              \/ Includes(setupPlayers, Trim(setupPlayerName)))
          => setupPlayers' = setupPlayers]_vars

\* an add of " A " was rejected because "A" is in the roster already
C14_Witness ==
    /\ mounted = "setup"
    /\ lastEvent.type = "setupAdd"
    /\ setupPlayerName = <<" ", "A", " ">>
    /\ Includes(setupPlayers, <<"A">>)
    /\ Len(setupPlayers) >= 2

\* C15: startGame opens the game screen only with 2 or more players, and
\* then with exactly the roster of the setup screen; with 0 or 1 players
\* nothing is opened and the roster stays; a game started from the setup
\* screen has at least 2 players.
C15_StartNeedsTwo ==
    /\ [][lastEvent'.type = "startGame"
          => IF Len(setupPlayers) >= 2
             THEN /\ mounted' = "game"
                  /\ players' = setupPlayers
                  /\ setupPlayers' = setupPlayers
             ELSE /\ mounted' = mounted
                  /\ UNCHANGED <<gameVars, setupVars>>]_vars
    /\ []((mounted = "game" /\ lastEvent.type = "startGame")
             => Len(players) >= 2 /\ players = setupPlayers)

\* startGame was rejected with one player in the roster
C15_Witness ==
    /\ mounted = "setup"
    /\ lastEvent.type = "startGame"
    /\ Len(setupPlayers) = 1

\* the parameter is the JSON text of an array of strings
WellFormedRoster(param) ==
    /\ param.present
    /\ LET parsed == ParseJSON(param.text)
       IN  /\ parsed.ok
           /\ parsed.type = "array"
           /\ \A k \in DOMAIN parsed.items : parsed.items[k].type = "string"

\* C16: a game screen opened with a players parameter that is not the JSON
\* text of an array of strings renders without an error and has an empty
\* roster.
C16_MalformedIsEmpty ==
    [][(lastEvent'.type = "openGame" /\ ~WellFormedRoster(params'))
          => /\ ~renderError'
             /\ Len(players') = 0]_vars

\* C17: in the game screen, from the third safe reveal (picksLeft = 0, timer
\* pending) until the timer fires, no user event changes the game state.
C17_DelayIsCosmetic ==
    [][(mounted = "game" /\ Len(players) >= 2 /\ picksLeft = 0 /\ timers > 0
            /\ lastEvent'.type # "timer")
       => UNCHANGED gameVars]_vars

C19_SlappedIsFrozen ==
    [][(mounted = "game" /\ Slapped /\ lastEvent'.type # "dismiss")
       => UNCHANGED <<currentPlayerIndex, picksLeft, grid, slappedPlayer,
                      isGameOver>>]_vars

\* C20: at the start of a turn of the game screen (picksLeft = 3, nobody
\* slapped, game not over, turn not locked) some hidden cell is not a mine.
C20_SafePickExists ==
    (mounted = "game" /\ Len(players) >= 2 /\ picksLeft = PICKS_PER_TURN
         /\ ~Slapped /\ ~isGameOver /\ ~turnLockedRef)
    => \E i \in Cells : ~grid[i].isRevealed /\ ~grid[i].isMine

\* C21: on the game screen, for every roster, isGameOver is true exactly
\* when slappedPlayer is set, that is when the modal with its Next Round
\* button shows.
C21_GameOverIffSlapped ==
    mounted = "game" => (isGameOver <=> ModalVisible)

\* the revealed mine cells of the grid
RevealedMines(g) == {i \in DOMAIN g : g[i].isMine /\ g[i].isRevealed}

\* C22: on the game screen at most one mine cell is revealed, one is
\* revealed exactly when isGameOver is true, and while isGameOver is true a
\* step reveals no cell: the grid stays, or it is replaced by one with every
\* cell hidden.
C22_OneRevealedMine ==
    /\ [](mounted = "game"
            => /\ Cardinality(RevealedMines(grid)) <= 1
               /\ (RevealedMines(grid) # {}) <=> isGameOver)
    /\ [][(mounted = "game" /\ isGameOver)
            => \A i \in Cells : grid'[i].isRevealed => grid[i].isRevealed]_vars

\* a tap on a hidden cell was refused after the mine had been revealed
C22_Witness ==
    \E i \in TapCells :
        /\ mounted = "game"
        /\ lastEvent = Event("tile", i)
        /\ ~grid[i].isRevealed
        /\ isGameOver
        /\ Cardinality(RevealedMines(grid)) = 1

\* C23: a press on restart hides every cell, places exactly mineCount mines,
\* sets picksLeft to 3, clears slappedPlayer and isGameOver, unlocks the
\* turn, and keeps currentPlayerIndex, mineCount and the roster.
C23_RestartFrame ==
    [][lastEvent'.type = "restart"
         => /\ \A i \in Cells : ~grid'[i].isRevealed
            /\ Cardinality(Mines(grid')) = mineCount
            /\ picksLeft' = PICKS_PER_TURN
            /\ slappedPlayer' = NULL
            /\ ~isGameOver'
            /\ ~turnLockedRef'
            /\ UNCHANGED <<currentPlayerIndex, mineCount, players>>]_vars

\* restart was pressed during the delay after the second player's third
\* pick: the turn is open again and still the second player's
C23_Witness ==
    /\ mounted = "game"
    /\ lastEvent.type = "restart"
    /\ timers > 0
    /\ currentPlayerIndex = 1
    /\ picksLeft = PICKS_PER_TURN
    /\ ~turnLockedRef
    /\ \A i \in Cells : ~grid[i].isRevealed

\* C24: on the game screen, once an event and its effects are done,
\* picksLeftRef.current equals picksLeft.
C24_RefEqualsState ==
    mounted = "game" => picksLeftRef = picksLeft

\* the timer passed the turn after three safe picks: picksLeft went from 0
\* to 3 and the ref followed
C24_Witness ==
    /\ mounted = "game"
    /\ lastEvent.type = "timer"
    /\ Cardinality({i \in Cells : grid[i].isRevealed}) = PICKS_PER_TURN
    /\ picksLeft = PICKS_PER_TURN
    /\ picksLeftRef = PICKS_PER_TURN

=============================================================================
